---- MODULE Spec2Model ----
(***************************************************************************)
(* CDList<ListType>: circular doubly-linked lists whose nodes live in one  *)
(* data pool shared by every instance (static members data, nextLinks,     *)
(* prevLinks, nLists, capacity, m, b, freeListHead).  Slots are array      *)
(* indices; 0xffffffff is the null index.                                  *)
(***************************************************************************)
EXTENDS Integers, Sequences, FiniteSets, TLC

\* ---------------------------------------------------------------- bounds
\* Number of CDList objects that may exist at the same time.
MaxLists == 2
\* Largest pool the model lets insert() grow to.
MaxCap == 3

\* Constructor arguments tried: _cap, _m, _b.
InitCaps == {1, 2}
\* A multiplier [w, n, d] is the double w * 2^32 + n / d.
Multipliers == {[w |-> 0, n |-> 3, d |-> 2], [w |-> 1, n |-> 0, d |-> 1]}
Addends == {0, 1}
\* Element values (ListType).
Vals == {"a", "b"}

\* ------------------------------------------------------------- constants
\* A uint32_t or int32_t value is held as its 32-bit pattern read in two's
\* complement, so 0xffffffff, the null index, is -1.
NONE == -1
\* a < b and a <= b on uint32_t operands.
ult(a, b) == IF (a < 0) = (b < 0) THEN a < b ELSE b < 0
ule(a, b) == a = b \/ ult(a, b)

Lists == 1..MaxLists
Positions == 0..(MaxCap + 1)
Indexes == {0 - (MaxCap + 1), -1, 0, 1, MaxCap}

VARIABLES
    nLists,         \* number of lists
    capacity,       \* size of shared arrays
    m,              \* capacity multiplier
    b,              \* value added to capacity
    freeListHead,   \* index of first node in free list
    data,           \* data array: slot -> element (slots written so far)
    nextLinks,      \* next index array
    prevLinks,      \* previous index array (slots written so far)
    heap,           \* number of live (data, nextLinks, prevLinks) allocations
    lists,          \* per-list stuff: live, head, count, curNode
    res             \* the last call: operation, object, how it ended, and
                    \* the _cap, or pos and val, of a constructor, insert or
                    \* remove that returned (the count a clear found),
                    \* whether it reallocated the pool

vars == <<nLists, capacity, m, b, freeListHead, data, nextLinks, prevLinks,
          heap, lists, res>>

\* An array none of whose slots holds a written value: one just obtained
\* from new[], or one released by delete[].
NoArray == [x \in {} |-> 0]

\* The shared (static) members as one value.
Arena == [nLists |-> nLists, capacity |-> capacity, m |-> m, b |-> b,
          freeListHead |-> freeListHead, data |-> data,
          nextLinks |-> nextLinks, prevLinks |-> prevLinks, heap |-> heap]

\* A list object's members right after its constructor ran.
EmptyList == [head |-> NONE, count |-> 0, curNode |-> NONE]
NoObject == [live |-> FALSE, head |-> NONE, count |-> 0, curNode |-> NONE]

Members(L) == [head |-> L.head, count |-> L.count, curNode |-> L.curNode]

\* array[k] = v, on an array whose slot k may not have been written before.
Put(f, k, v) == [x \in (DOMAIN f) \cup {k} |-> IF x = k THEN v ELSE f[x]]

\* links[...links[start]...], n times; NONE once the walk leaves the array.
RECURSIVE Walk(_, _, _)
Walk(links, start, n) ==
    IF n = 0 THEN start
    ELSE IF start \in DOMAIN links THEN Walk(links, links[start], n - 1)
    ELSE NONE

\* The slots visited from start along links, n of them.
RECURSIVE Slots(_, _, _)
Slots(links, start, n) ==
    IF n = 0 \/ start \notin DOMAIN links THEN << >>
    ELSE <<start>> \o Slots(links, links[start], n - 1)

\* The free list: slots from freeListHead along nextLinks up to the null
\* index (at most fuel of them).
RECURSIVE Chain(_, _, _)
Chain(links, start, fuel) ==
    IF fuel = 0 \/ start = NONE \/ start \notin DOMAIN links THEN << >>
    ELSE <<start>> \o Chain(links, links[start], fuel - 1)

Range(s) == {s[k] : k \in DOMAIN s}

\* The ring of a list: its count slots from head along nextLinks.
Ring(A, L) == IF L.count = 0 THEN << >> ELSE Slots(A.nextLinks, L.head, L.count)

\* The elements of a list in logical order ("?" for a slot never written).
Elems(A, L) ==
    LET R == Ring(A, L)
    IN  [k \in DOMAIN R |-> IF R[k] \in DOMAIN A.data THEN A.data[R[k]] ELSE "?"]

\* s without its k-th element.
RemoveAt(s, k) == [j \in 1..(Len(s) - 1) |-> IF j < k THEN s[j] ELSE s[j + 1]]

\* What a call leaves behind: how it ended ("ok" or the exception's
\* message class), the shared members, the object's members, the value
\* returned.
Outcome(status, A, L, ret) == [status |-> status, arena |-> A, list |-> L, ret |-> ret]

\* ------------------------------------------------------------ CDList()
\* Mutant: the pool is set up by every construction, not only the first.
CDListAlways(A, cap, mul, add) ==
    Outcome("ok",
            [A EXCEPT !.data = NoArray,
                      !.nextLinks = [i \in 0..(cap - 1) |->
                                       IF i < cap - 1 THEN i + 1 ELSE NONE],
                      !.prevLinks = NoArray,
                      !.heap = A.heap + 1,
                      !.freeListHead = 0,
                      !.capacity = cap,
                      !.m = mul,
                      !.b = add,
                      !.nLists = A.nLists + 1],
            EmptyList, 0)

CDList(A, cap, mul, add) ==
    LET A1 == IF A.nLists = 0
              THEN [A EXCEPT !.data = NoArray,
                             !.nextLinks = [i \in 0..(cap - 1) |->
                                              IF i < cap - 1 THEN i + 1 ELSE NONE],
                             !.prevLinks = NoArray,
                             !.heap = A.heap + 1,
                             !.freeListHead = 0,
                             !.capacity = cap,
                             !.m = mul,
                             !.b = add]
              ELSE A
    IN  Outcome("ok", [A1 EXCEPT !.nLists = A.nLists + 1], EmptyList, 0)

\* -------------------------------------------------------------- clear()
\* Mutant: the end of the list is not connected to the front of the free list.
clearUnlinked(A, L) ==
    IF ult(0, L.count)
    THEN Outcome("ok", [A EXCEPT !.freeListHead = L.head], EmptyList, 0)
    ELSE Outcome("ok", A, L, 0)

\* Mutant: curNode is not reset with head.
clearKeepsCursor(A, L) ==
    IF ult(0, L.count)
    THEN LET last == A.prevLinks[L.head]
         IN  Outcome("ok",
                     [A EXCEPT !.nextLinks = Put(A.nextLinks, last, A.freeListHead),
                               !.freeListHead = L.head],
                     [L EXCEPT !.head = NONE, !.count = 0], 0)
    ELSE Outcome("ok", A, L, 0)

clear(A, L) ==
    IF ult(0, L.count)
    THEN LET last == A.prevLinks[L.head]
         IN  Outcome("ok",
                     [A EXCEPT !.nextLinks = Put(A.nextLinks, last, A.freeListHead),
                               !.freeListHead = L.head],
                     EmptyList, 0)
    ELSE Outcome("ok", A, L, 0)

\* ----------------------------------------------------------- ~CDList()
\* Mutant: the last list out does not deallocate the space.
dtorNoRelease(A, L) ==
    LET c == clear(A, L)
    IN  Outcome("ok", [c.arena EXCEPT !.nLists = c.arena.nLists - 1], c.list, 0)

dtor(A, L) ==
    LET c == clear(A, L)
        n == c.arena.nLists - 1
        A1 == [c.arena EXCEPT !.nLists = n]
    IN  IF n = 0
        THEN Outcome("ok", [A1 EXCEPT !.prevLinks = NoArray, !.nextLinks = NoArray,
                                      !.data = NoArray, !.heap = A1.heap - 1],
                     c.list, 0)
        ELSE Outcome("ok", A1, c.list, 0)

\* ------------------------------------------------------ size(), isEmpty()
size(L) == L.count
isEmpty(L) == L.count = 0

\* ------------------------------------------------------------- search()
RECURSIVE searchFrom(_, _, _, _, _)
searchFrom(A, pos, i, count, key) ==
    IF ult(i, count)
    THEN IF A.data[pos] = key THEN i
         ELSE searchFrom(A, A.nextLinks[pos], i + 1, count, key)
    ELSE NONE

\* Mutant: the data array is scanned from slot 0 instead of the list's ring.
searchArray(A, L, key) ==
    LET hits == {s \in DOMAIN A.data : A.data[s] = key}
    IN  IF hits = {} THEN Outcome("not-found", A, L, 0)
        ELSE Outcome("ok", A, L, CHOOSE s \in hits : \A t \in hits : s <= t)

search(A, L, key) ==
    LET r == searchFrom(A, L.head, 0, L.count, key)
    IN  IF r = NONE THEN Outcome("not-found", A, L, 0) ELSE Outcome("ok", A, L, r)

\* --------------------------------------------------------- operator[]()
\* The bounds test of line 182, index an int32_t and count a uint32_t: index
\* < 0 is a signed comparison, -index > count and index >= count convert the
\* int32_t operand to uint32_t.
indexOutOfBounds(index, count) ==
    (index < 0 /\ ult(count, 0 - index)) \/ ule(count, index)

indexSlot(A, L, index) ==
    IF index < 0 THEN Walk(A.prevLinks, L.head, 0 - index)
    ELSE Walk(A.nextLinks, L.head, index)

indexing(A, L, index) ==
    IF indexOutOfBounds(index, L.count) THEN Outcome("invalid-index", A, L, 0)
    ELSE Outcome("ok", A, L, A.data[indexSlot(A, L, index)])

\* -------------------------------------------------------------- insert()
\* uint32_t tmpCap = capacity * m + b: the product and the sum are made in
\* double, the result is truncated to uint32_t.  growthValue is the truncated
\* double as [w, r], standing for w * 2^32 + r.  With w > 0 the value does not
\* fit a uint32_t and the conversion is undefined behaviour: it yields the
\* low 32 bits where it goes through a 64-bit truncation, 0xffffffff where it
\* saturates.
growthValue(A) == [w |-> A.capacity * A.m.w,
                   r |-> (A.capacity * A.m.n) \div A.m.d + A.b]

tmpCaps(A) ==
    IF growthValue(A).w = 0 THEN {growthValue(A).r}
    ELSE {growthValue(A).r, NONE}

\* Mutant: the old data array is not copied into the new one.
growNoCopy(A, tmpCap) ==
    [A EXCEPT !.nextLinks = [i \in 0..(tmpCap - 1) |->
                               IF i < A.capacity THEN A.nextLinks[i]
                               ELSE IF i < tmpCap - 1 THEN i + 1 ELSE NONE],
              !.data = NoArray,
              !.heap = (A.heap + 1) - 1,
              !.freeListHead = A.capacity,
              !.capacity = tmpCap]

\* Mutant: the new slots are threaded from the last one down to the first.
growDescending(A, tmpCap) ==
    [A EXCEPT !.nextLinks = [i \in 0..(tmpCap - 1) |->
                               IF i < A.capacity THEN A.nextLinks[i]
                               ELSE IF i > A.capacity THEN i - 1 ELSE NONE],
              !.heap = (A.heap + 1) - 1,
              !.freeListHead = tmpCap - 1,
              !.capacity = tmpCap]

\* Lines 252-284: the arrays are reallocated with tmpCap slots, the old slots
\* copied, the new slots threaded into a fresh free list.
grow(A, tmpCap) ==
    [A EXCEPT !.nextLinks = [i \in 0..(tmpCap - 1) |->
                               IF i < A.capacity THEN A.nextLinks[i]
                               ELSE IF i < tmpCap - 1 THEN i + 1 ELSE NONE],
              !.heap = (A.heap + 1) - 1,
              !.freeListHead = A.capacity,
              !.capacity = tmpCap]

\* Mutant: the successor's prev link is not pointed at the new node.
linkOneWay(A, L, pos, val) ==
    LET tmp == A.freeListHead
        A1 == [A EXCEPT !.freeListHead = A.nextLinks[tmp],
                        !.data = Put(A.data, tmp, val)]
    IN  IF L.count = 0
        THEN Outcome("ok",
                     [A1 EXCEPT !.nextLinks = Put(A1.nextLinks, tmp, tmp),
                                !.prevLinks = Put(A1.prevLinks, tmp, tmp)],
                     [L EXCEPT !.head = tmp, !.count = L.count + 1], 0)
        ELSE LET pred == Walk(A1.nextLinks, A1.prevLinks[L.head], pos)
                 succ == A1.nextLinks[pred]
                 nl == Put(Put(A1.nextLinks, tmp, succ), pred, tmp)
                 pl == Put(A1.prevLinks, tmp, pred)
             IN  Outcome("ok", [A1 EXCEPT !.nextLinks = nl, !.prevLinks = pl],
                         [L EXCEPT !.count = L.count + 1], 0)

\* Mutant: an insert at position 0 makes the new node the head.
linkMovesHead(A, L, pos, val) ==
    LET tmp == A.freeListHead
        A1 == [A EXCEPT !.freeListHead = A.nextLinks[tmp],
                        !.data = Put(A.data, tmp, val)]
    IN  IF L.count = 0
        THEN Outcome("ok",
                     [A1 EXCEPT !.nextLinks = Put(A1.nextLinks, tmp, tmp),
                                !.prevLinks = Put(A1.prevLinks, tmp, tmp)],
                     [L EXCEPT !.head = tmp, !.count = L.count + 1], 0)
        ELSE LET pred == Walk(A1.nextLinks, A1.prevLinks[L.head], pos)
                 succ == A1.nextLinks[pred]
                 nl == Put(Put(A1.nextLinks, tmp, succ), pred, tmp)
                 pl == Put(Put(A1.prevLinks, tmp, pred), succ, tmp)
             IN  Outcome("ok", [A1 EXCEPT !.nextLinks = nl, !.prevLinks = pl],
                         [L EXCEPT !.head = IF pos = 0 THEN tmp ELSE L.head,
                                   !.count = L.count + 1], 0)

\* Lines 287-321: a node is taken from the free list and linked in.
link(A, L, pos, val) ==
    LET tmp == A.freeListHead
        A1 == [A EXCEPT !.freeListHead = A.nextLinks[tmp],
                        !.data = Put(A.data, tmp, val)]
    IN  IF L.count = 0
        THEN Outcome("ok",
                     [A1 EXCEPT !.nextLinks = Put(A1.nextLinks, tmp, tmp),
                                !.prevLinks = Put(A1.prevLinks, tmp, tmp)],
                     [L EXCEPT !.head = tmp, !.count = L.count + 1], 0)
        ELSE LET pred == Walk(A1.nextLinks, A1.prevLinks[L.head], pos)
                 succ == A1.nextLinks[pred]
                 nl == Put(Put(A1.nextLinks, tmp, succ), pred, tmp)
                 pl == Put(Put(A1.prevLinks, tmp, pred), succ, tmp)
             IN  Outcome("ok", [A1 EXCEPT !.nextLinks = nl, !.prevLinks = pl],
                         [L EXCEPT !.count = L.count + 1], 0)

\* Mutant: pos is validated after the pool has been grown.
insertLateCheck(A, L, pos, val, tmpCap) ==
    IF A.freeListHead = NONE
    THEN IF ule(tmpCap, A.capacity) THEN Outcome("resource-exhausted", A, L, 0)
         ELSE IF ult(L.count, pos) THEN Outcome("invalid-index", grow(A, tmpCap), L, 0)
         ELSE link(grow(A, tmpCap), L, pos, val)
    ELSE IF ult(L.count, pos) THEN Outcome("invalid-index", A, L, 0)
    ELSE link(A, L, pos, val)

insert(A, L, pos, val, tmpCap) ==
    IF ult(L.count, pos) THEN Outcome("invalid-index", A, L, 0)
    ELSE IF A.freeListHead = NONE
    THEN IF ule(tmpCap, A.capacity) THEN Outcome("resource-exhausted", A, L, 0)
         ELSE link(grow(A, tmpCap), L, pos, val)
    ELSE link(A, L, pos, val)

\* -------------------------------------------------------------- remove()
\* Mutant: head is not moved when the head node is the one deleted.
removeKeepsHead(A, L, pos) ==
    IF ule(L.count, pos) THEN Outcome("invalid-index", A, L, 0)
    ELSE IF L.count = 1
    THEN LET ntbd == L.head
         IN  Outcome("ok",
                     [A EXCEPT !.nextLinks = Put(A.nextLinks, ntbd, A.freeListHead),
                               !.freeListHead = ntbd],
                     [L EXCEPT !.head = NONE, !.curNode = NONE,
                               !.count = L.count - 1], 0)
    ELSE LET pred == Walk(A.nextLinks, A.prevLinks[L.head], pos)
             ntbd == A.nextLinks[pred]
             cn == IF ntbd = L.curNode THEN NONE ELSE L.curNode
             succ == A.nextLinks[ntbd]
             nl == Put(A.nextLinks, pred, succ)
             pl == Put(A.prevLinks, succ, pred)
         IN  Outcome("ok",
                     [A EXCEPT !.nextLinks = Put(nl, ntbd, A.freeListHead),
                               !.prevLinks = pl,
                               !.freeListHead = ntbd],
                     [L EXCEPT !.curNode = cn, !.count = L.count - 1], 0)

\* Mutant: head is not reset when the only element is deleted.
removeLastKeepsHead(A, L, pos) ==
    IF ule(L.count, pos) THEN Outcome("invalid-index", A, L, 0)
    ELSE IF L.count = 1
    THEN LET ntbd == L.head
         IN  Outcome("ok",
                     [A EXCEPT !.nextLinks = Put(A.nextLinks, ntbd, A.freeListHead),
                               !.freeListHead = ntbd],
                     [L EXCEPT !.curNode = NONE, !.count = L.count - 1], 0)
    ELSE LET pred == Walk(A.nextLinks, A.prevLinks[L.head], pos)
             ntbd == A.nextLinks[pred]
             cn == IF ntbd = L.curNode THEN NONE ELSE L.curNode
             hd == IF ntbd = L.head THEN A.nextLinks[L.head] ELSE L.head
             succ == A.nextLinks[ntbd]
             nl == Put(A.nextLinks, pred, succ)
             pl == Put(A.prevLinks, succ, pred)
         IN  Outcome("ok",
                     [A EXCEPT !.nextLinks = Put(nl, ntbd, A.freeListHead),
                               !.prevLinks = pl,
                               !.freeListHead = ntbd],
                     [L EXCEPT !.head = hd, !.curNode = cn,
                               !.count = L.count - 1], 0)

\* Mutant: curNode is not reset when the current node is the one deleted.
removeKeepsCursor(A, L, pos) ==
    IF ule(L.count, pos) THEN Outcome("invalid-index", A, L, 0)
    ELSE IF L.count = 1
    THEN LET ntbd == L.head
         IN  Outcome("ok",
                     [A EXCEPT !.nextLinks = Put(A.nextLinks, ntbd, A.freeListHead),
                               !.freeListHead = ntbd],
                     [L EXCEPT !.head = NONE, !.curNode = NONE,
                               !.count = L.count - 1], 0)
    ELSE LET pred == Walk(A.nextLinks, A.prevLinks[L.head], pos)
             ntbd == A.nextLinks[pred]
             hd == IF ntbd = L.head THEN A.nextLinks[L.head] ELSE L.head
             succ == A.nextLinks[ntbd]
             nl == Put(A.nextLinks, pred, succ)
             pl == Put(A.prevLinks, succ, pred)
         IN  Outcome("ok",
                     [A EXCEPT !.nextLinks = Put(nl, ntbd, A.freeListHead),
                               !.prevLinks = pl,
                               !.freeListHead = ntbd],
                     [L EXCEPT !.head = hd, !.count = L.count - 1], 0)

remove(A, L, pos) ==
    IF ule(L.count, pos) THEN Outcome("invalid-index", A, L, 0)
    ELSE IF L.count = 1
    THEN LET ntbd == L.head
         IN  Outcome("ok",
                     [A EXCEPT !.nextLinks = Put(A.nextLinks, ntbd, A.freeListHead),
                               !.freeListHead = ntbd],
                     [L EXCEPT !.head = NONE, !.curNode = NONE,
                               !.count = L.count - 1], 0)
    ELSE LET pred == Walk(A.nextLinks, A.prevLinks[L.head], pos)
             ntbd == A.nextLinks[pred]
             cn == IF ntbd = L.curNode THEN NONE ELSE L.curNode
             hd == IF ntbd = L.head THEN A.nextLinks[L.head] ELSE L.head
             succ == A.nextLinks[ntbd]
             nl == Put(A.nextLinks, pred, succ)
             pl == Put(A.prevLinks, succ, pred)
         IN  Outcome("ok",
                     [A EXCEPT !.nextLinks = Put(nl, ntbd, A.freeListHead),
                               !.prevLinks = pl,
                               !.freeListHead = ntbd],
                     [L EXCEPT !.head = hd, !.curNode = cn,
                               !.count = L.count - 1], 0)

\* ------------------------------------- cur(), next(), prev(), first(), last()
cur(A, L) ==
    IF L.curNode = NONE THEN Outcome("no-current-node", A, L, 0)
    ELSE Outcome("ok", A, L, A.data[L.curNode])

\* Mutant: the next element is returned but curNode is not moved.
nextNoMove(A, L) ==
    IF L.curNode = NONE THEN Outcome("no-current-node", A, L, 0)
    ELSE Outcome("ok", A, L, A.data[A.nextLinks[L.curNode]])

next(A, L) ==
    IF L.curNode = NONE THEN Outcome("no-current-node", A, L, 0)
    ELSE LET c == A.nextLinks[L.curNode]
         IN  Outcome("ok", A, [L EXCEPT !.curNode = c], A.data[c])

prev(A, L) ==
    IF L.curNode = NONE THEN Outcome("no-current-node", A, L, 0)
    ELSE LET c == A.prevLinks[L.curNode]
         IN  Outcome("ok", A, [L EXCEPT !.curNode = c], A.data[c])

\* Mutant: curNode is set to the first slot of the pool, not to head.
firstOfPool(A, L) ==
    IF L.head = NONE THEN Outcome("empty-list", A, L, 0)
    ELSE Outcome("ok", A, [L EXCEPT !.curNode = 0], A.data[0])

first(A, L) ==
    IF L.head = NONE THEN Outcome("empty-list", A, L, 0)
    ELSE Outcome("ok", A, [L EXCEPT !.curNode = L.head], A.data[L.head])

last(A, L) ==
    IF L.head = NONE THEN Outcome("empty-list", A, L, 0)
    ELSE LET c == A.prevLinks[L.head]
         IN  Outcome("ok", A, [L EXCEPT !.curNode = c], A.data[c])

isFirst(A, L) == L.head # NONE /\ L.curNode = L.head
isLast(A, L) == L.head # NONE /\ L.curNode = A.prevLinks[L.head]

\* ------------------------------------------------------------- the calls
\* A call on object self ended with outcome o.
Return(self, live, o, op, arg, val, grew) ==
    /\ nLists' = o.arena.nLists
    /\ capacity' = o.arena.capacity
    /\ m' = o.arena.m
    /\ b' = o.arena.b
    /\ freeListHead' = o.arena.freeListHead
    /\ data' = o.arena.data
    /\ nextLinks' = o.arena.nextLinks
    /\ prevLinks' = o.arena.prevLinks
    /\ heap' = o.arena.heap
    /\ lists' = [lists EXCEPT ![self] =
                    IF live
                    THEN [live |-> TRUE, head |-> o.list.head,
                          count |-> o.list.count, curNode |-> o.list.curNode]
                    ELSE NoObject]
    /\ res' = [op |-> op, self |-> self, status |-> o.status,
               arg |-> IF o.status = "ok" THEN arg ELSE 0,
               val |-> IF o.status = "ok" THEN val ELSE "-",
               grew |-> grew /\ o.status = "ok"]

Init ==
    /\ nLists = 0
    /\ capacity = 0
    /\ m = [w |-> 0, n |-> 0, d |-> 1]
    /\ b = 0
    /\ freeListHead = 0
    /\ data = NoArray
    /\ nextLinks = NoArray
    /\ prevLinks = NoArray
    /\ heap = 0
    /\ lists = [i \in Lists |-> NoObject]
    /\ res = [op |-> "none", self |-> 0, status |-> "ok", arg |-> 0, val |-> "-",
              grew |-> FALSE]

Construct(self, cap, mul, add) ==
    /\ ~lists[self].live
    /\ Return(self, TRUE, CDList(Arena, cap, mul, add), "construct", cap, "-", FALSE)

Destruct(self) ==
    /\ lists[self].live
    /\ Return(self, FALSE, dtor(Arena, Members(lists[self])), "destruct", 0, "-", FALSE)

Clear(self) ==
    /\ lists[self].live
    /\ Return(self, TRUE, clear(Arena, Members(lists[self])), "clear",
              lists[self].count, "-", FALSE)

Search(self, key) ==
    /\ lists[self].live
    /\ Return(self, TRUE, search(Arena, Members(lists[self]), key), "search", 0, "-", FALSE)

Index(self, index) ==
    /\ lists[self].live
    /\ Return(self, TRUE, indexing(Arena, Members(lists[self]), index),
              "indexing", 0, "-", FALSE)

Insert(self, pos, val) ==
    /\ lists[self].live
    /\ \E tmpCap \in tmpCaps(Arena) :
          /\ ule(tmpCap, MaxCap) \/ freeListHead # NONE \/ pos > lists[self].count
          /\ Return(self, TRUE, insert(Arena, Members(lists[self]), pos, val, tmpCap),
                    "insert", pos, val, freeListHead = NONE)

Remove(self, pos) ==
    /\ lists[self].live
    /\ Return(self, TRUE, remove(Arena, Members(lists[self]), pos), "remove", pos, "-", FALSE)

Cur(self) ==
    /\ lists[self].live
    /\ Return(self, TRUE, cur(Arena, Members(lists[self])), "cur", 0, "-", FALSE)

Advance(self) ==
    /\ lists[self].live
    /\ Return(self, TRUE, next(Arena, Members(lists[self])), "next", 0, "-", FALSE)

Retreat(self) ==
    /\ lists[self].live
    /\ Return(self, TRUE, prev(Arena, Members(lists[self])), "prev", 0, "-", FALSE)

First(self) ==
    /\ lists[self].live
    /\ Return(self, TRUE, first(Arena, Members(lists[self])), "first", 0, "-", FALSE)

Last(self) ==
    /\ lists[self].live
    /\ Return(self, TRUE, last(Arena, Members(lists[self])), "last", 0, "-", FALSE)

Next ==
    \/ \E self \in Lists, cap \in InitCaps, mul \in Multipliers, add \in Addends :
          Construct(self, cap, mul, add)
    \/ \E self \in Lists : Destruct(self)
    \/ \E self \in Lists : Clear(self)
    \/ \E self \in Lists, key \in Vals : Search(self, key)
    \/ \E self \in Lists, index \in Indexes : Index(self, index)
    \/ \E self \in Lists, pos \in Positions, val \in Vals : Insert(self, pos, val)
    \/ \E self \in Lists, pos \in Positions : Remove(self, pos)
    \/ \E self \in Lists : Cur(self)
    \/ \E self \in Lists : Advance(self)
    \/ \E self \in Lists : Retreat(self)
    \/ \E self \in Lists : First(self)
    \/ \E self \in Lists : Last(self)

Spec == Init /\ [][Next]_vars

\* ------------------------------------------------------------ properties
Live == {i \in Lists : lists[i].live}

\* The free list as the code walks it, and the value that ends the walk.
FreeChain == Chain(nextLinks, freeListHead, capacity + 1)
FreeChainEnd == Walk(nextLinks, freeListHead, Len(FreeChain))

RingOf(i) == Ring(Arena, Members(lists[i]))
Occupied == UNION {Range(RingOf(i)) : i \in Live}

\* C1: while a list exists, the slots 0..capacity-1 are exactly the slots of
\* the lists' rings plus the slots of the free list, with no slot in both;
\* the free list ends in the null index and holds no slot twice.
C1_Partition ==
    nLists > 0 =>
        /\ FreeChainEnd = NONE
        /\ Cardinality(Range(FreeChain)) = Len(FreeChain)
        /\ Range(FreeChain) \cap Occupied = {}
        /\ Range(FreeChain) \cup Occupied = 0..(capacity - 1)

C1_Witness ==
    /\ Cardinality(Live) = 2
    /\ \A i \in Live : lists[i].count > 0
    /\ Len(FreeChain) > 0
    /\ res.op = "remove" /\ res.status = "ok"

\* C2: every non-empty list's ring is a cycle of count distinct slots whose
\* next and prev links are inverse to each other, and two lists share no slot.
RingWellFormed(i) ==
    LET R == RingOf(i)
    IN  /\ Len(R) = lists[i].count
        /\ Cardinality(Range(R)) = lists[i].count
        /\ Walk(nextLinks, lists[i].head, lists[i].count) = lists[i].head
        /\ \A s \in Range(R) :
              /\ s \in DOMAIN prevLinks
              /\ nextLinks[s] \in DOMAIN prevLinks
              /\ prevLinks[s] \in DOMAIN nextLinks
              /\ prevLinks[nextLinks[s]] = s
              /\ nextLinks[prevLinks[s]] = s

C2_Rings ==
    /\ \A i \in Live : lists[i].count > 0 => RingWellFormed(i)
    /\ \A i, j \in Live : i # j => Range(RingOf(i)) \cap Range(RingOf(j)) = {}

C2_Witness ==
    /\ Cardinality(Live) = 2
    /\ \E i \in Live : lists[i].count = 2
    /\ \E i \in Live : lists[i].count = 1
    /\ res.op = "insert" /\ res.status = "ok" /\ res.arg = 1

MembersOf(i) == Members(lists[i])
ElemsOf(i) == Elems(Arena, MembersOf(i))

\* C3: an insert(pos, val) that returns has raised size() by 1, a following
\* indexing(pos) returns val, and the other elements keep their order.
C3_InsertThenIndex ==
    [][\A i \in Lists :
         (res'.op = "insert" /\ res'.status = "ok" /\ res'.self = i) =>
         LET after == indexing(Arena', MembersOf(i)', res'.arg)
         IN  /\ size(MembersOf(i)') = size(MembersOf(i)) + 1
             /\ after.status = "ok"
             /\ after.ret = res'.val
             /\ \E k \in 1..Len(ElemsOf(i)') :
                   /\ ElemsOf(i)'[k] = res'.val
                   /\ RemoveAt(ElemsOf(i)', k) = ElemsOf(i)]_vars

\* C4: remove(pos) with 0 <= pos < count returns, lowers size() by 1, and
\* leaves the former sequence without its element at pos.
C4_Remove ==
    [][\A i \in Lists :
         (res'.op = "remove" /\ res'.self = i) =>
            /\ \A pos \in 0..(lists[i].count - 1) :
                  remove(Arena, MembersOf(i), pos).status = "ok"
            /\ res'.status = "ok" =>
                  /\ res'.arg \in 0..(lists[i].count - 1)
                  /\ \A A \in {Arena'}, L \in {MembersOf(i)'} :
                        /\ size(L) = size(MembersOf(i)) - 1
                        /\ Elems(A, L) = RemoveAt(ElemsOf(i), res'.arg + 1)]_vars

C4_Witness ==
    /\ res.op = "remove" /\ res.status = "ok" /\ res.arg = 1
    /\ lists[res.self].count = 2
    /\ ElemsOf(res.self) = <<"a", "b">>

\* C5: on a list of count >= 1, indexing(i - count) for 0 <= i < count
\* returns, and returns the element indexing(i) returns.
C5_NegativeIndex ==
    \A i \in Live : \A k \in 0..(lists[i].count - 1) :
        /\ indexing(Arena, MembersOf(i), k - lists[i].count).status = "ok"
        /\ indexing(Arena, MembersOf(i), k - lists[i].count).ret
             = indexing(Arena, MembersOf(i), k).ret

\* C6: a call that ends in a failure leaves the shared members and every
\* list's members as they were.
C6_FailureChangesNothing ==
    [][res'.status # "ok" =>
         UNCHANGED <<nLists, capacity, m, b, freeListHead, data, nextLinks,
                     prevLinks, heap, lists>>]_vars

C6_Witness ==
    /\ res.op = "insert" /\ res.status = "resource-exhausted"
    /\ Cardinality(Live) = 2
    /\ \A i \in Live : lists[i].count > 0 /\ lists[i].curNode # NONE

\* C7: insert, remove, clear and the destructor leave every other list's
\* head, count, curNode and elements as they were.
C7_OthersUntouched ==
    [][res'.op \in {"insert", "remove", "clear", "destruct"} =>
         \A j \in Live \ {res'.self} :
            /\ lists'[j] = lists[j]
            /\ \A A \in {Arena'}, L \in {MembersOf(j)'} : Elems(A, L) = ElemsOf(j)]_vars

C7_Witness ==
    /\ res.op = "insert" /\ res.status = "ok" /\ res.grew
    /\ \E j \in Live \ {res.self} : lists[j].count = 2 /\ lists[j].curNode # NONE

\* C8: with the free list empty, an insert at a valid position fails with
\* resource-exhausted exactly when floor(capacity * m) + b <= capacity and
\* otherwise leaves capacity = floor(capacity * m) + b; with the free list
\* not empty, capacity does not change.
C8_Growth ==
    [][res'.op = "insert" /\ res'.status # "invalid-index" =>
         IF freeListHead = NONE
         THEN /\ res'.status = "resource-exhausted"
                   <=> (growthValue(Arena).w = 0 /\ growthValue(Arena).r <= capacity)
              /\ res'.status = "ok"
                   => (growthValue(Arena).w = 0 /\ capacity' = growthValue(Arena).r)
         ELSE capacity' = capacity /\ ~res'.grew]_vars

\* C9: nLists is the number of objects constructed and not destroyed, and the
\* pool's arrays are allocated exactly while nLists > 0.
C9_Lifecycle ==
    /\ nLists = Cardinality(Live)
    /\ heap = IF nLists > 0 THEN 1 ELSE 0
    /\ nLists > 0 => DOMAIN nextLinks = 0..(capacity - 1)
    /\ nLists = 0 => data = NoArray /\ nextLinks = NoArray /\ prevLinks = NoArray

C9_Witness ==
    /\ res.op = "destruct" /\ nLists = 0 /\ heap = 0
    /\ capacity = 3

\* C10: a construction while another list exists changes nLists (+1) and
\* nothing else of the shared members, and the new list is empty.
C10_LaterConstruction ==
    [][(res'.op = "construct" /\ nLists > 0) =>
         /\ nLists' = nLists + 1
         /\ UNCHANGED <<capacity, m, b, freeListHead, data, nextLinks, prevLinks, heap>>
         /\ \A j \in Lists :
               lists'[j] = IF j = res'.self
                           THEN [live |-> TRUE, head |-> NONE, count |-> 0,
                                 curNode |-> NONE]
                           ELSE lists[j]]_vars

C10_Witness ==
    /\ res.op = "construct" /\ nLists = 2
    /\ res.arg # capacity
    /\ freeListHead # 0
    /\ lists[res.self].count = 0

\* ------------------------------------------------------------------ C11
\* Number of insert calls made in a row on a cleared list.
RunLen == 2
\* The positions of the calls (a run ends at the first call that throws, so
\* the shorter runs are among these); the k-th call from the end inserts
\* RunVal(k).
InsertRuns == [1..RunLen -> 0..RunLen]
RunVal(k) == IF k % 2 = 0 THEN "a" ELSE "b"

\* The calls insert(run[1], v1), insert(run[2], v2), ... made in turn, up to
\* the first that throws.  tmpCap is the low 32 bits of capacity * m + b.
RECURSIVE insertAll(_, _, _)
insertAll(A, L, run) ==
    IF run = << >> THEN Outcome("ok", A, L, 0)
    ELSE LET o == insert(A, L, Head(run), RunVal(Len(run)), growthValue(A).r)
         IN  IF o.status = "ok" THEN insertAll(o.arena, o.list, Tail(run)) ELSE o

\* The static members before any list exists (lines 530-552), and the first
\* list constructed from them with room for RunLen elements.
StaticInit ==
    [nLists |-> 0, capacity |-> 0, m |-> [w |-> 0, n |-> 0, d |-> 1], b |-> 0,
     freeListHead |-> 0, data |-> NoArray, nextLinks |-> NoArray,
     prevLinks |-> NoArray, heap |-> 0]
Fresh == CDList(StaticInit, RunLen, [w |-> 0, n |-> 3, d |-> 2], 0)
\* How each run ends on that list, and the sequence it has built.
FreshRuns ==
    [run \in InsertRuns |->
        LET f == insertAll(Fresh.arena, Fresh.list, run)
        IN  [status |-> f.status, elems |-> Elems(f.arena, f.list)]]

\* C11: clear() leaves size() = 0, isEmpty(), head = curNode = null index; the
\* free list becomes the former ring, in order from head, followed by the
\* former free list; on an empty list it changes nothing; and inserts made
\* after it build the sequence they build on a freshly constructed list
\* (unless the pool cannot grow for them).
C11_Clear ==
    [][\A i \in Lists :
         (res'.op = "clear" /\ res'.self = i) =>
            /\ res'.status = "ok"
            /\ size(MembersOf(i)') = 0
            /\ isEmpty(MembersOf(i)')
            /\ lists'[i].head = NONE /\ lists'[i].curNode = NONE
            /\ FreeChain' = RingOf(i) \o FreeChain
            /\ lists[i].count = 0 =>
                  UNCHANGED <<nLists, capacity, m, b, freeListHead, data,
                              nextLinks, prevLinks, heap, lists>>
            /\ \A A \in {Arena'}, L \in {MembersOf(i)'}, run \in InsertRuns :
                  LET c == insertAll(A, L, run)
                  IN  c.status # "resource-exhausted" =>
                         /\ c.status = FreshRuns[run].status
                         /\ Elems(c.arena, c.list) = FreshRuns[run].elems]_vars

C11_Witness ==
    /\ res.op = "clear" /\ res.arg = 2
    /\ lists[res.self].count = 0
    /\ \E j \in Live \ {res.self} : lists[j].count = 1
    /\ Len(FreeChain) = 2

\* ------------------------------------------------------------------ C12
\* n calls of next() in a row: the values returned, the list after them,
\* whether all returned.
RECURSIVE advances(_, _, _)
advances(A, L, n) ==
    IF n = 0 THEN [rets |-> << >>, list |-> L, ok |-> TRUE]
    ELSE LET o == next(A, L)
             r == advances(A, o.list, n - 1)
         IN  [rets |-> <<o.ret>> \o r.rets, list |-> r.list,
              ok |-> o.status = "ok" /\ r.ok]

\* C12: on a non-empty list first() and then count calls of next() return the
\* elements in logical order and then the first element again, with curNode
\* back on head; prev() undoes next(); isFirst() holds exactly when the list
\* is not empty and curNode = head.
C12_Iteration ==
    \A i \in Live :
        /\ isFirst(Arena, MembersOf(i))
              <=> (lists[i].count > 0 /\ lists[i].curNode = lists[i].head)
        /\ lists[i].curNode # NONE =>
              LET n == next(Arena, MembersOf(i))
                  p == prev(Arena, n.list)
              IN  /\ n.status = "ok" /\ p.status = "ok"
                  /\ p.list = MembersOf(i)
        /\ lists[i].count > 0 =>
              LET f == first(Arena, MembersOf(i))
                  r == advances(Arena, f.list, lists[i].count)
              IN  /\ f.status = "ok" /\ r.ok
                  /\ <<f.ret>> \o r.rets = ElemsOf(i) \o <<ElemsOf(i)[1]>>
                  /\ r.list.curNode = lists[i].head
                  /\ isFirst(Arena, r.list)

C12_Witness ==
    /\ res.op = "next" /\ res.status = "ok"
    /\ lists[res.self].count = 3
    /\ ElemsOf(res.self) = <<"a", "b", "a">>
    /\ lists[res.self].curNode = lists[res.self].head

\* ------------------------------------------------------------------ C13
\* C13: search(key) on a list returns the offset of the first of its elements
\* equal to key, and fails with not-found exactly when none of its elements
\* equals key, whatever the other lists and the free slots hold.
C13_Search ==
    \A i \in Live : \A key \in Vals :
        LET E == ElemsOf(i)
            o == search(Arena, MembersOf(i), key)
            at == {k \in DOMAIN E : E[k] = key}
        IN  IF at = {} THEN o.status = "not-found"
            ELSE /\ o.status = "ok"
                 /\ o.ret + 1 \in at
                 /\ \A k \in at : o.ret + 1 <= k

C13_Witness ==
    /\ res.op = "search" /\ res.status = "not-found"
    /\ capacity = 3
    /\ ElemsOf(res.self) = <<"a">>
    /\ \E j \in Live \ {res.self} : ElemsOf(j) = <<"b", "b">>

\* ------------------------------------------------------------------ C14
\* C14: an insert into an empty list makes the slot it takes the head; an
\* insert into a non-empty list, at position 0 too, leaves head as it was;
\* no insert changes curNode.
C14_InsertHead ==
    [][\A i \in Lists :
         (res'.op = "insert" /\ res'.self = i) =>
            /\ lists'[i].curNode = lists[i].curNode
            /\ (lists[i].count > 0 \/ res'.status # "ok") =>
                  lists'[i].head = lists[i].head
            /\ (lists[i].count = 0 /\ res'.status = "ok") =>
                  /\ lists'[i].head =
                        IF res'.grew THEN capacity ELSE freeListHead
                  /\ lists'[i].head # NONE
                  /\ data'[lists'[i].head] = res'.val]_vars

C14_Witness ==
    /\ res.op = "insert" /\ res.status = "ok" /\ res.arg = 0 /\ res.val = "b"
    /\ ElemsOf(res.self) = <<"a", "b">>
    /\ lists[res.self].curNode = lists[res.self].head

\* ------------------------------------------------------------------ C15
\* Lists made with _cap = 1, _m = 1.5 and _b = 2, so that the pool grows by
\* two slots.
GrowthCaps == {1}
GrowthMultipliers == {[w |-> 0, n |-> 3, d |-> 2]}
GrowthAddends == {2}

NextGrowth ==
    \/ \E self \in Lists, cap \in GrowthCaps, mul \in GrowthMultipliers,
          add \in GrowthAddends :
          Construct(self, cap, mul, add)
    \/ \E self \in Lists : Destruct(self)
    \/ \E self \in Lists : Clear(self)
    \/ \E self \in Lists, key \in Vals : Search(self, key)
    \/ \E self \in Lists, index \in Indexes : Index(self, index)
    \/ \E self \in Lists, pos \in Positions, val \in Vals : Insert(self, pos, val)
    \/ \E self \in Lists, pos \in Positions : Remove(self, pos)
    \/ \E self \in Lists : Cur(self)
    \/ \E self \in Lists : Advance(self)
    \/ \E self \in Lists : Retreat(self)
    \/ \E self \in Lists : First(self)
    \/ \E self \in Lists : Last(self)

SpecGrowth == Init /\ [][NextGrowth]_vars

\* s..(t - 1) in ascending order.
Ascending(s, t) == [k \in 1..(t - s) |-> s + k - 1]

\* C15: when insert reallocates the pool, every slot below the old capacity
\* keeps its element, next link and prev link, and the free list made is the
\* new slots old capacity .. new capacity - 1 in ascending order, ended by
\* the null index; the insert then takes the first of them.
C15_GrowthStable ==
    [][(res'.op = "insert" /\ res'.grew) =>
         /\ capacity' > capacity
         /\ \A g \in {grow(Arena, capacity')} :
               /\ g.capacity = capacity'
               /\ \A s \in 0..(capacity - 1) :
                     /\ g.nextLinks[s] = nextLinks[s]
                     /\ s \in DOMAIN prevLinks =>
                           s \in DOMAIN g.prevLinks /\ g.prevLinks[s] = prevLinks[s]
                     /\ s \in DOMAIN data =>
                           s \in DOMAIN g.data /\ g.data[s] = data[s]
               /\ Chain(g.nextLinks, g.freeListHead, capacity' + 1)
                     = Ascending(capacity, capacity')
               /\ Walk(g.nextLinks, g.freeListHead, capacity' - capacity) = NONE
         /\ \A s \in 0..(capacity - 1) : data'[s] = data[s]
         /\ data'[capacity] = res'.val
         /\ FreeChain' = Ascending(capacity + 1, capacity')
         /\ \A j \in Live \ {res'.self} : \A s \in Range(RingOf(j)) :
               nextLinks'[s] = nextLinks[s] /\ prevLinks'[s] = prevLinks[s]]_vars

C15_Witness ==
    /\ res.op = "insert" /\ res.grew
    /\ capacity = 3
    /\ FreeChain = <<2>>
    /\ lists[res.self].count = 2

\* ------------------------------------------------------------------ C16
\* C16: remove(pos) resets curNode to the null index exactly when curNode was
\* the slot removed and otherwise leaves it; a removed head is replaced by its
\* successor (by the null index when it was the only element); the removed
\* slot becomes freeListHead, linked to the former free list, and the next
\* insert on any list stores its value in that slot.
C16_RemoveCursor ==
    [][\A i \in Lists :
         (res'.op = "remove" /\ res'.status = "ok" /\ res'.self = i) =>
         \A ntbd \in {RingOf(i)[res'.arg + 1]} :
            /\ lists'[i].curNode =
                  IF lists[i].curNode = ntbd THEN NONE ELSE lists[i].curNode
            /\ lists'[i].head =
                  IF lists[i].head # ntbd THEN lists[i].head
                  ELSE IF lists[i].count > 1 THEN nextLinks[ntbd] ELSE NONE
            /\ freeListHead' = ntbd
            /\ nextLinks'[ntbd] = freeListHead
            /\ \A A \in {Arena'} : \A j \in Live', val \in Vals :
                  \A o \in {insert(A, MembersOf(j)', 0, val, growthValue(A).r)} :
                     /\ o.status = "ok"
                     /\ o.arena.capacity = capacity'
                     /\ o.arena.data[ntbd] = val
                     /\ Range(Ring(o.arena, o.list))
                           = Range(RingOf(j)') \cup {ntbd}]_vars

C16_Witness ==
    /\ res.op = "remove" /\ res.status = "ok" /\ res.arg = 0
    /\ lists[res.self].count = 1
    /\ lists[res.self].curNode = NONE
    /\ freeListHead # NONE /\ nextLinks[freeListHead] = NONE
    /\ \E j \in Live \ {res.self} : lists[j].curNode # NONE

\* ------------------------------------------------------------------ C17
\* C17: the destructor call that brings nLists to 0 resets capacity and
\* freeListHead (to their initial values, or freeListHead to the null index),
\* and the next constructor call sets up a new pool: capacity, m and b are its
\* arguments and the free list is 0 .. capacity - 1.
C17_Reset ==
    [][\A i \in Lists :
         /\ (res'.op = "destruct" /\ res'.self = i /\ nLists' = 0) =>
               /\ capacity' = StaticInit.capacity
               /\ freeListHead' \in {StaticInit.freeListHead, NONE}
         /\ (res'.op = "construct" /\ res'.self = i /\ nLists = 0) =>
               /\ capacity' = res'.arg
               /\ \A mul \in Multipliers, add \in Addends :
                     Construct(i, res'.arg, mul, add) => m' = mul /\ b' = add
               /\ FreeChain' = Ascending(0, capacity')
               /\ FreeChainEnd' = NONE]_vars

\* ------------------------------------------------------------------ C18
\* C18: for every live list head is the null index exactly when count is 0,
\* so first() and last() throw empty-list, and isFirst() and isLast() cannot
\* hold, exactly when isEmpty(); remove(0) on a one-element list leaves head
\* and curNode at the null index and size() = 0.
C18_EmptyAgree ==
    \A i \in Live :
        /\ (lists[i].head = NONE) <=> (lists[i].count = 0)
        /\ (first(Arena, MembersOf(i)).status = "empty-list") <=> isEmpty(MembersOf(i))
        /\ (last(Arena, MembersOf(i)).status = "empty-list") <=> isEmpty(MembersOf(i))
        /\ isEmpty(MembersOf(i)) =>
              ~isFirst(Arena, MembersOf(i)) /\ ~isLast(Arena, MembersOf(i))
        /\ lists[i].count = 1 =>
              \A o \in {remove(Arena, MembersOf(i), 0)} :
                 /\ o.status = "ok"
                 /\ o.list.head = NONE /\ o.list.curNode = NONE
                 /\ size(o.list) = 0

C18_Witness ==
    /\ res.op = "remove" /\ res.status = "ok" /\ res.arg = 0
    /\ lists[res.self].count = 0
    /\ lists[res.self].head = NONE /\ lists[res.self].curNode = NONE
    /\ \E j \in Live \ {res.self} : lists[j].count = 2

\* ------------------------------------------------------------------ C19
\* C19: every live list's curNode is the null index or a slot of that list's
\* own ring, never a free slot or a slot of another list.
C19_CursorInRing ==
    \A i \in Live :
        \/ lists[i].curNode = NONE
        \/ /\ lists[i].curNode \in Range(RingOf(i))
           /\ lists[i].curNode \notin Range(FreeChain)
           /\ \A j \in Live \ {i} : lists[i].curNode \notin Range(RingOf(j))

C19_Witness ==
    /\ res.op = "remove" /\ res.status = "ok"
    /\ Cardinality(Live) = 2
    /\ \A i \in Live : lists[i].curNode # NONE
    /\ Len(FreeChain) = 1 /\ capacity = 3

\* ------------------------------------------------------------------ C20
\* Constructor arguments with _cap = 0.
ZeroCaps == {0, 1}

\* The constructor for any _cap.  With _cap = 0 and no list yet, the arrays
\* have no slot and the loop of lines 55-56 runs for i < 0xffffffff: its first
\* pass writes nextLinks[0], outside the array.  That is undefined behaviour;
\* the call is recorded as ended "out-of-bounds" at that write, with
\* freeListHead already set (line 53), and the program is followed no further.
construct(A, cap, mul, add) ==
    IF A.nLists = 0 /\ cap = 0
    THEN Outcome("out-of-bounds",
                 [A EXCEPT !.data = NoArray, !.nextLinks = NoArray,
                           !.prevLinks = NoArray, !.heap = A.heap + 1,
                           !.freeListHead = 0],
                 EmptyList, 0)
    ELSE CDList(A, cap, mul, add)

Crashed == res.status = "out-of-bounds"

ConstructAny(self, cap, mul, add) ==
    /\ ~Crashed
    /\ ~lists[self].live
    /\ \E o \in {construct(Arena, cap, mul, add)} :
          Return(self, o.status = "ok", o, "construct", cap, "-", FALSE)

NextZeroCap ==
    \/ \E self \in Lists, cap \in ZeroCaps, mul \in Multipliers, add \in Addends :
          ConstructAny(self, cap, mul, add)
    \/ \E self \in Lists : Destruct(self)
    \/ \E self \in Lists : Clear(self)
    \/ \E self \in Lists, key \in Vals : Search(self, key)
    \/ \E self \in Lists, index \in Indexes : Index(self, index)
    \/ \E self \in Lists, pos \in Positions, val \in Vals : Insert(self, pos, val)
    \/ \E self \in Lists, pos \in Positions : Remove(self, pos)
    \/ \E self \in Lists : Cur(self)
    \/ \E self \in Lists : Advance(self)
    \/ \E self \in Lists : Retreat(self)
    \/ \E self \in Lists : First(self)
    \/ \E self \in Lists : Last(self)

SpecZeroCap == Init /\ [][NextZeroCap]_vars

InBounds(s) == s = NONE \/ s \in 0..(capacity - 1)

\* C20: for every _cap, 0 included, no call reads or writes outside the
\* arrays: while a list exists freeListHead and every next link on the free
\* list is the null index or a slot below capacity.
C20_InBounds ==
    /\ ~Crashed
    /\ nLists > 0 =>
          /\ InBounds(freeListHead)
          /\ \A s \in Range(FreeChain) : InBounds(nextLinks[s])

====
